---- MODULE Spec2Model ----
(***************************************************************************)
(* Verification model of the js-waku version-1 payload codec               *)
(* (src/lib/waku_message/version_1.ts) and of waitForRemotePeer.           *)
(*                                                                         *)
(* Byte arrays (Uint8Array) are modelled run-length encoded: an array is a *)
(* sequence of runs, a run being n consecutive bytes.  A run of kind       *)
(* "byte" is n copies of the concrete byte val.  Runs of the other kinds   *)
(* are the bytes off .. off+n-1 of an opaque blob produced by a            *)
(* cryptographic primitive (keccak256 digest, secp256k1 signature, AES-GCM *)
(* output, random IV); the blob is identified by the inputs it was         *)
(* computed from.  Arrays are kept in normal form (no empty run, adjacent  *)
(* runs merged) so that equal byte strings are equal values.               *)
(***************************************************************************)
EXTENDS Integers, Sequences, FiniteSets, TLC

\* ------------------------------------------------------------------------
\* Program constants (version_1.ts lines 10-14)
FlagsLength == 1
FlagMask == 3
IsSignedMask == 4
PaddingTarget == 256
SignatureLength == 65

\* ------------------------------------------------------------------------
\* Bounds of the model
MaxDelta == 2
MaxKey == 2

Pow16 == 256 * 256
Pow24 == 256 * 256 * 256
HugeLen == 64 * Pow24

Min(a, b) == IF a < b THEN a ELSE b
Max(a, b) == IF a > b THEN a ELSE b

\* ------------------------------------------------------------------------
\* Uint8Array
ByteRun(v, n) ==
  [kind |-> "byte", val |-> v, key |-> 0, data |-> <<>>, off |-> 0, n |-> n]

Blob(kind, key, data, n) ==
  <<[kind |-> kind, val |-> 0, key |-> key, data |-> data, off |-> 0, n |-> n]>>

Mergeable(a, b) ==
  /\ a.kind = b.kind
  /\ a.val = b.val
  /\ a.key = b.key
  /\ a.data = b.data
  /\ (a.kind = "byte" \/ a.off + a.n = b.off)

RECURSIVE Norm(_)
Norm(a) ==
  IF Len(a) = 0 THEN <<>>
  ELSE LET h == Head(a)
           t == Norm(Tail(a))
       IN IF h.n = 0 THEN t
          ELSE IF Len(t) > 0 /\ Mergeable(h, Head(t))
               THEN <<[h EXCEPT !.n = h.n + Head(t).n]>> \o Tail(t)
               ELSE <<h>> \o t

\* new Uint8Array(n) is n zero bytes; Fill(v, n) is n bytes of value v
Fill(v, n) == IF n <= 0 THEN <<>> ELSE <<ByteRun(v, n)>>

RECURSIVE Length(_)
Length(a) == IF Len(a) = 0 THEN 0 ELSE Head(a).n + Length(Tail(a))

RECURSIVE Take(_, _)
Take(a, k) ==
  IF k <= 0 \/ Len(a) = 0 THEN <<>>
  ELSE LET h == Head(a)
       IN IF h.n <= k THEN <<h>> \o Take(Tail(a), k - h.n)
          ELSE <<[h EXCEPT !.n = k]>>

RECURSIVE Drop(_, _)
Drop(a, k) ==
  IF k <= 0 \/ Len(a) = 0 THEN a
  ELSE LET h == Head(a)
       IN IF h.n <= k THEN Drop(Tail(a), k - h.n)
          ELSE <<[h EXCEPT !.n = h.n - k,
                           !.off = IF h.kind = "byte" THEN 0 ELSE h.off + k]>>
               \o Tail(a)

\* TypedArray.prototype.slice(start, end): negative indices count from the
\* end, both are clamped to [0, length], an empty range gives an empty array
RelIndex(i, len) == IF i < 0 THEN Max(len + i, 0) ELSE Min(i, len)

Slice(a, start, end) ==
  LET len == Length(a)
      from == RelIndex(start, len)
      to == RelIndex(end, len)
  IN Norm(Take(Drop(a, from), to - from))

\* concat([a, b]) without a total length
Concat(a, b) == Norm(a \o b)

\* concat([a, b], totalLength): a zeroed array of totalLength bytes into
\* which a and b are copied
ConcatTo(a, b, totalLength) ==
  Norm(a \o b \o Fill(0, totalLength - Length(a) - Length(b)))

\* a[i] of a concrete byte (0-based)
ByteAt(a, i) == Head(Drop(a, i)).val

\* a[i] = v
SetByte(a, i, v) == Norm(Take(a, i) \o <<ByteRun(v, 1)>> \o Drop(a, i + 1))

\* bitwise operators on bytes
RECURSIVE BitAnd(_, _)
BitAnd(x, y) ==
  IF x = 0 \/ y = 0 THEN 0
  ELSE (x % 2) * (y % 2) + 2 * BitAnd(x \div 2, y \div 2)

RECURSIVE BitOr(_, _)
BitOr(x, y) ==
  IF x = 0 THEN y
  ELSE IF y = 0 THEN x
  ELSE Max(x % 2, y % 2) + 2 * BitOr(x \div 2, y \div 2)

\* DataView.setUint32(0, v, true) on a 4-byte array: little endian
SetUint32LE(v) ==
  Norm(<<ByteRun(v % 256, 1), ByteRun((v \div 256) % 256, 1),
         ByteRun((v \div Pow16) % 256, 1), ByteRun((v \div Pow24) % 256, 1)>>)

\* DataView.getInt32(0, true) of a 4-byte array: little endian, two's
\* complement
GetInt32LE(a) ==
  LET b3 == ByteAt(a, 3)
      hi == IF b3 >= 128 THEN b3 - 256 ELSE b3
  IN ByteAt(a, 0) + 256 * ByteAt(a, 1) + Pow16 * ByteAt(a, 2) + Pow24 * hi

\* ------------------------------------------------------------------------
\* Primitives of ../crypto and @noble/secp256k1 (opaque, collision free)

\* keccak256(m): a 32-byte digest determined by m
keccak256(m) == Blob("keccak", 0, m, 32)

\* sign(hash, privKey): 64 bytes compact signature and 1 recovery byte
sign(hash, privKey) == Blob("sig", privKey, hash, SignatureLength)

\* secp.getPublicKey(privKey, false); 0 stands for "no key"
getPublicKey(privKey) == 1000 + privKey

\* what recovery yields for a signature that was not made over the hash:
\* the library throws, or returns a key that belongs to nobody here
LibOutcomes == {"throw", "other"}

\* randomBytes(n) under the generator behaviour rng
RngBehaviours == {"zeros", "ones", "mixed", "short"}

randomBytes(n, rng) ==
  CASE rng = "zeros" -> Fill(0, n)
    [] rng = "ones" -> Fill(255, n)
    [] rng = "mixed" -> Norm(Fill(0, n - 1) \o <<ByteRun(1, 1)>>)
    [] rng = "short" -> Fill(255, n - 1)

\* symmetric.ts: AES-256-GCM with a 12-byte IV and a 16-byte tag
IvSize == 12
TagSize == 16

SepRun ==
  [kind |-> "sep", val |-> 0, key |-> 0, data |-> <<>>, off |-> 0, n |-> 0]

\* the triple (iv, key, data) an AES-GCM output is determined by
Pack(iv, key, data) == iv \o <<SepRun>> \o key \o <<SepRun>> \o data

Unpack(packed) ==
  LET seps == {i \in 1..Len(packed) : packed[i].kind = "sep"}
      last == CHOOSE i \in seps : \A j \in seps : j <= i
  IN SubSeq(packed, last + 1, Len(packed))

\* symmetric.generateIv(): 12 fresh random bytes, nonce names the draw
generateIv(nonce) == Blob("iv", nonce, <<>>, IvSize)

\* symmetric.encrypt(iv, key, data): cipher | tag
symEncrypt(iv, key, data) ==
  Blob("gcm", 0, Pack(iv, key, data), Length(data) + TagSize)

\* symmetric.decrypt(iv, key, cipher): the plaintext when cipher is a whole
\* AES-GCM output made with this iv and key, else the tag check fails
symDecrypt(iv, key, cipher) ==
  IF /\ Len(cipher) = 1
     /\ cipher[1].kind = "gcm"
     /\ cipher[1].off = 0
     /\ cipher[1].n = Length(Unpack(cipher[1].data)) + TagSize
     /\ cipher[1].data = Pack(iv, key, Unpack(cipher[1].data))
  THEN [status |-> "ok", data |-> Unpack(cipher[1].data)]
  ELSE [status |-> "throw", data |-> <<>>]

\* ------------------------------------------------------------------------
\* utils.ts

HexDigits ==
  <<"0", "1", "2", "3", "4", "5", "6", "7", "8", "9",
    "a", "b", "c", "d", "e", "f">>

HexVal(c) == (CHOOSE i \in 1..16 : HexDigits[i] = c) - 1

\* fromString(chars, "base16")
RECURSIVE FromBase16(_)
FromBase16(chars) ==
  IF Len(chars) < 2 THEN <<>>
  ELSE <<ByteRun(16 * HexVal(chars[1]) + HexVal(chars[2]), 1)>>
       \o FromBase16(SubSeq(chars, 3, Len(chars)))

\* hex.replace(/^0x/i, "")
StripPrefix(chars) ==
  IF Len(chars) >= 2 /\ chars[1] = "0" /\ chars[2] \in {"x", "X"}
  THEN SubSeq(chars, 3, Len(chars))
  ELSE chars

\* a key is given as a string of characters or as a byte array
StringKey(chars) == [str |-> TRUE, chars |-> chars, bytes |-> <<>>]
BytesKey(bytes) == [str |-> FALSE, chars |-> <<>>, bytes |-> bytes]

hexToBytes(hex) ==
  IF hex.str THEN Norm(FromBase16(StripPrefix(hex.chars))) ELSE hex.bytes

\* ------------------------------------------------------------------------
\* version_1.ts

\* for (let i = payload.length; i >= 256; i /= 256) s++
\* i is a double; dividing by 256 is exact, so i is the rational num / den
\* and i >= 256 iff floor(num / den) >= 256
RECURSIVE SizeLoop(_, _, _)
SizeLoop(num, den, s) ==
  IF num \div den >= 256 THEN SizeLoop(num, den * 256, s + 1) ELSE s

computeSizeOfPayloadSizeField_gt(payload) ==
  LET n == Length(payload)
  IN IF n > 256 THEN SizeLoop(n, 256, 2) ELSE 1

computeSizeOfPayloadSizeField(payload) == SizeLoop(Length(payload), 1, 1)

addPayloadSizeField_noslice(msg, payload) ==
  LET fieldSize == computeSizeOfPayloadSizeField(payload)
      field == SetUint32LE(Length(payload))
      msg1 == Concat(msg, field)
  IN SetByte(msg1, 0, BitOr(ByteAt(msg1, 0), fieldSize) % 256)

addPayloadSizeField(msg, payload) ==
  LET fieldSize == computeSizeOfPayloadSizeField(payload)
      field == Slice(SetUint32LE(Length(payload)), 0, fieldSize)
      msg1 == Concat(msg, field)
  IN SetByte(msg1, 0, BitOr(ByteAt(msg1, 0), fieldSize) % 256)

HasNonZero(value) ==
  \E k \in 1..Len(value) : value[k].kind # "byte" \/ value[k].val # 0

validateDataIntegrity(value, expectedSize) ==
  IF Length(value) # expectedSize THEN FALSE
  ELSE expectedSize <= 3 \/ HasNonZero(value)

rawSize_nosig(messagePayload, sigPrivKey) ==
  FlagsLength + computeSizeOfPayloadSizeField(messagePayload)
  + Length(messagePayload)

rawSize(messagePayload, sigPrivKey) ==
  FlagsLength + computeSizeOfPayloadSizeField(messagePayload)
  + Length(messagePayload)
  + (IF sigPrivKey # 0 THEN SignatureLength ELSE 0)

NoResult ==
  [status |-> "none", payload |-> <<>>, signed |-> FALSE, signature |-> <<>>,
   publicKey |-> 0, hash |-> <<>>, size |-> 0]

\* clearEncode(messagePayload, sigPrivKey); sigPrivKey = 0 is "not set".
\* size records the number of bytes addPayloadSizeField appended.
clearEncode(messagePayload, sigPrivKey, rng) ==
  LET env0 == <<ByteRun(0, 1)>>
      env1 == addPayloadSizeField(env0, messagePayload)
      env2 == Concat(env1, messagePayload)
      remainder == rawSize(messagePayload, sigPrivKey) % PaddingTarget
      paddingSize == PaddingTarget - remainder
      pad == randomBytes(paddingSize, rng)
      env3 == Concat(env2, pad)
      env4 == SetByte(env3, 0, BitOr(ByteAt(env3, 0), IsSignedMask))
      hash == keccak256(env4)
      bytesSignature == sign(hash, sigPrivKey)
  IN IF ~validateDataIntegrity(pad, paddingSize)
     THEN [NoResult EXCEPT !.status = "throw"]
     ELSE IF sigPrivKey # 0
     THEN [status |-> "ok", payload |-> Concat(env4, bytesSignature),
           signed |-> TRUE, signature |-> bytesSignature,
           publicKey |-> getPublicKey(sigPrivKey), hash |-> hash,
           size |-> Length(env1) - Length(env0)]
     ELSE [status |-> "ok", payload |-> env3,
           signed |-> FALSE, signature |-> <<>>,
           publicKey |-> 0, hash |-> <<>>,
           size |-> Length(env1) - Length(env0)]

\* new DataView(message.buffer).getUint8(0) & FlagMask
getSizeOfPayloadSizeField(message) == BitAnd(ByteAt(message, 0), FlagMask)

getPayloadSize_be(message, sizeOfPayloadSizeField) ==
  LET payloadSizeBytes == Slice(message, 1, 1 + sizeOfPayloadSizeField)
      padded == IF sizeOfPayloadSizeField < 4
                THEN ConcatTo(payloadSizeBytes,
                              Fill(0, 4 - sizeOfPayloadSizeField), 4)
                ELSE payloadSizeBytes
  IN GetInt32LE(<<ByteRun(ByteAt(padded, 3), 1), ByteRun(ByteAt(padded, 2), 1),
                  ByteRun(ByteAt(padded, 1), 1), ByteRun(ByteAt(padded, 0), 1)>>)

getPayloadSize(message, sizeOfPayloadSizeField) ==
  LET payloadSizeBytes == Slice(message, 1, 1 + sizeOfPayloadSizeField)
      padded == IF sizeOfPayloadSizeField < 4
                THEN ConcatTo(payloadSizeBytes,
                              Fill(0, 4 - sizeOfPayloadSizeField), 4)
                ELSE payloadSizeBytes
  IN GetInt32LE(padded)

isMessageSigned(message) ==
  BitAnd(ByteAt(message, 0), IsSignedMask) = IsSignedMask

getSignature(message) ==
  Slice(message, Length(message) - SignatureLength, Length(message))

getHash(message, isSigned) ==
  IF isSigned
  THEN keccak256(Slice(message, 0, Length(message) - SignatureLength))
  ELSE keccak256(message)

\* ecRecoverPubKey: "throw" when the recovery byte cannot be read or the
\* library rejects the signature, else the recovered key
ecRecoverPubKey(messageHash, signature, lib) ==
  LET recoveryBytes == Slice(signature, 64, Length(signature))
      compact == Slice(signature, 0, 64)
  IN IF Length(recoveryBytes) = 0 THEN "throw"
     ELSE IF /\ Len(signature) = 1
             /\ signature[1].kind = "sig"
             /\ signature[1].off = 0
             /\ signature[1].n = SignatureLength
             /\ signature[1].data = messageHash
          THEN "key"
          ELSE lib

\* clearDecode(message); status "undefined" is the bare return, "throw" an
\* exception; size records the value getPayloadSize returned
clearDecode(message, lib) ==
  IF Length(message) = 0 THEN [NoResult EXCEPT !.status = "throw"]
  ELSE
  LET sizeOfPayloadSizeField == getSizeOfPayloadSizeField(message)
      payloadSize == getPayloadSize(message, sizeOfPayloadSizeField)
      payloadStart == 1 + sizeOfPayloadSizeField
      payload == Slice(message, payloadStart, payloadStart + payloadSize)
      isSigned == isMessageSigned(message)
      signature == getSignature(message)
      hash == getHash(message, isSigned)
      rec == ecRecoverPubKey(hash, signature, lib)
  IN IF sizeOfPayloadSizeField = 0
     THEN [NoResult EXCEPT !.status = "undefined"]
     ELSE IF ~isSigned
     THEN [status |-> "ok", payload |-> payload, signed |-> FALSE,
           signature |-> <<>>, publicKey |-> 0, hash |-> <<>>,
           size |-> payloadSize]
     ELSE IF rec = "throw"
     THEN [NoResult EXCEPT !.status = "throw"]
     ELSE [status |-> "ok", payload |-> payload, signed |-> TRUE,
           signature |-> signature,
           publicKey |-> IF rec = "key" THEN getPublicKey(signature[1].key)
                         ELSE 999,
           hash |-> hash, size |-> payloadSize]

\* ------------------------------------------------------------------------
\* State

VARIABLES
  pc,              \* position of the codec run: start, encoded, decoded
  messagePayload,  \* argument of clearEncode
  sigPrivKey,      \* argument of clearEncode, 0 when not set
  encoded,         \* what clearEncode returned
  message,         \* argument of clearDecode
  decoded,         \* what clearDecode returned
  sizeResult,      \* what computeSizeOfPayloadSizeField returned, -1 before
  symPc,           \* position of the symmetric run
  symData,         \* argument of encryptSymmetric
  symKey,          \* key given to encryptSymmetric
  symDecKey,       \* key given to decryptSymmetric
  symIv,           \* the IV generateIv returned inside encryptSymmetric
  symBlob,         \* what encryptSymmetric returned
  symPlain,        \* what decryptSymmetric returned
  wPc,             \* waitForRemotePeer: init before the call, called after
  protocols,       \* argument: the protocols to wait for
  timeoutMs,       \* argument: 0 when no timeout is given
  subscribed,      \* a remote peer is subscribed to the pubsub topic
  meshPeers,       \* the relay mesh of the topic has a remote peer
  known,           \* codecs for which the peer store knows a remote peer
  relayP,          \* the Relay promise: none, waitSub, waitBeat, done
  lookupP,         \* per protocol: none, lookup, found, empty, listening, done
  timer,           \* none, armed, fired
  outcome,         \* of the returned promise: pending, resolved, rejected
  settledAtTimeout \* when the timer fired, all requested protocols were
                   \* fulfilled and no peer lookup was in flight

codecVars ==
  <<pc, messagePayload, sigPrivKey, encoded, message, decoded, sizeResult>>

symVars == <<symPc, symData, symKey, symDecKey, symIv, symBlob, symPlain>>

waitVars ==
  <<wPc, protocols, timeoutMs, subscribed, meshPeers, known, relayP, lookupP,
    timer, outcome, settledAtTimeout>>

vars == <<codecVars, symVars, waitVars>>

\* the values of the variables a specification does not use
CodecIdle ==
  /\ pc = "idle"
  /\ messagePayload = <<>>
  /\ sigPrivKey = 0
  /\ encoded = NoResult
  /\ message = <<>>
  /\ decoded = NoResult
  /\ sizeResult = -1

SymIdle ==
  /\ symPc = "idle"
  /\ symData = <<>>
  /\ symKey = BytesKey(<<>>)
  /\ symDecKey = BytesKey(<<>>)
  /\ symIv = <<>>
  /\ symBlob = <<>>
  /\ symPlain = [status |-> "none", data |-> <<>>]

Lookups == {"Store", "LightPush", "Filter"}

WaitIdle ==
  /\ wPc = "idle"
  /\ protocols = {}
  /\ timeoutMs = 0
  /\ subscribed = FALSE
  /\ meshPeers = FALSE
  /\ known = {}
  /\ relayP = "none"
  /\ lookupP = [p \in Lookups |-> "none"]
  /\ timer = "none"
  /\ outcome = "pending"
  /\ settledAtTimeout = FALSE

\* ------------------------------------------------------------------------
\* Inputs

Boundaries == {256, Pow16, Pow24}
EdgeLens == {188, 189, 190, 253}

PayloadLens ==
  (0..MaxDelta) \cup EdgeLens \cup {HugeLen}
  \cup {b + d : b \in Boundaries, d \in 0..MaxDelta}
  \cup {b - d : b \in Boundaries, d \in 1..MaxDelta}

Patterns == {"zeros", "aa", "ramp"}

MakePayload(n, pat) ==
  CASE pat = "zeros" -> Fill(0, n)
    [] pat = "aa" -> Fill(170, n)
    [] pat = "ramp" ->
         Norm(Fill(1, Min(n, 1)) \o Fill(2, n - 2) \o Fill(3, Min(n - 1, 1)))

Payloads == {MakePayload(n, pat) : n \in PayloadLens, pat \in Patterns}

Keys == 0..MaxKey

\* ------------------------------------------------------------------------
\* The codec: clearEncode followed by clearDecode of its envelope

Init ==
  /\ SymIdle
  /\ WaitIdle
  /\ pc = "start"
  /\ messagePayload \in Payloads
  /\ sigPrivKey \in Keys
  /\ encoded = NoResult
  /\ message = <<>>
  /\ decoded = NoResult
  /\ sizeResult = -1

ComputeSize ==
  /\ pc = "start"
  /\ sizeResult = -1
  /\ sizeResult' = computeSizeOfPayloadSizeField(messagePayload)
  /\ UNCHANGED <<pc, messagePayload, sigPrivKey, encoded, message, decoded>>
  /\ UNCHANGED <<symVars, waitVars>>

ClearEncode ==
  /\ pc = "start"
  /\ \E rng \in RngBehaviours :
       encoded' = clearEncode(messagePayload, sigPrivKey, rng)
  /\ pc' = "encoded"
  /\ UNCHANGED <<messagePayload, sigPrivKey, message, decoded, sizeResult>>
  /\ UNCHANGED <<symVars, waitVars>>

ClearDecode ==
  /\ pc = "encoded"
  /\ encoded.status = "ok"
  /\ message' = encoded.payload
  /\ \E lib \in LibOutcomes : decoded' = clearDecode(encoded.payload, lib)
  /\ pc' = "decoded"
  /\ UNCHANGED <<messagePayload, sigPrivKey, encoded, sizeResult>>
  /\ UNCHANGED <<symVars, waitVars>>

Next == ComputeSize \/ ClearEncode \/ ClearDecode

Spec == Init /\ [][Next]_vars

\* ------------------------------------------------------------------------
\* Properties of the codec (specification Spec)

PayloadLen == Length(messagePayload)

\* C1: clearDecode of the envelope clearEncode returned gives back the
\* payload byte for byte, for every payload and signing key.
C1_RoundTrip ==
  pc = "decoded" => decoded.status = "ok" /\ decoded.payload = messagePayload

\* C2: the envelope clearEncode returns is at least 256 bytes long and its
\* length is a multiple of 256, signed or not.
C2_EnvelopeLength ==
  encoded.status = "ok" =>
    /\ Length(encoded.payload) >= PaddingTarget
    /\ Length(encoded.payload) % PaddingTarget = 0

C2_Witness ==
  /\ encoded.status = "ok"
  /\ sigPrivKey # 0
  /\ rawSize(messagePayload, sigPrivKey) = PaddingTarget
  /\ Length(encoded.payload) = 2 * PaddingTarget

\* C3: the low two bits of the first envelope byte equal the number of
\* size-field bytes written, bit 2 is set iff a signing key was supplied,
\* bits 3-7 are 0.
C3_FlagsByte ==
  encoded.status = "ok" =>
    LET flags == ByteAt(encoded.payload, 0)
    IN /\ BitAnd(flags, FlagMask) = encoded.size
       /\ (BitAnd(flags, IsSignedMask) = IsSignedMask) <=> (sigPrivKey # 0)
       /\ flags \div 8 = 0

\* C4: for every signed envelope, clearDecode recovers the public key of
\* the signing key: the digest it verifies is the digest that was signed
\* and the last 65 bytes are the signature that was appended.
C4_SignatureRecovered ==
  (pc = "decoded" /\ sigPrivKey # 0) =>
    /\ decoded.status = "ok"
    /\ decoded.publicKey = getPublicKey(sigPrivKey)
    /\ decoded.hash = encoded.hash
    /\ decoded.signature = encoded.signature

\* C9: computeSizeOfPayloadSizeField is 1 below 256, 2 from 256 to 65535,
\* 3 from 65536 to 16777215 and 4 above.
C9_SizeOfSizeField ==
  sizeResult # -1 =>
    sizeResult = (IF PayloadLen < 256 THEN 1
                  ELSE IF PayloadLen < Pow16 THEN 2
                  ELSE IF PayloadLen < Pow24 THEN 3
                  ELSE 4)

C9_Witness == sizeResult = 3 /\ PayloadLen = Pow16

\* the smallest k >= 0 with 256^k >= m
RECURSIVE CeilLog256(_)
CeilLog256(m) == IF m <= 1 THEN 0 ELSE 1 + CeilLog256((m + 255) \div 256)

\* C10 as stated: the number of size-field bytes written is
\* ceil(log256(max(1, n + 1))) for every payload length n, 0 included.
C10_Original ==
  encoded.status = "ok" => encoded.size = CeilLog256(Max(1, PayloadLen + 1))

\* C10 amended: the number of size-field bytes written is
\* ceil(log256(n + 1)) for n >= 1 and is 1 for the empty payload.
C10_SizeFieldLength ==
  encoded.status = "ok" =>
    encoded.size = (IF PayloadLen = 0 THEN 1 ELSE CeilLog256(PayloadLen + 1))

C10_Witness == encoded.status = "ok" /\ PayloadLen = 0 /\ encoded.size = 1

\* the round trip and the flags byte, restricted to payloads whose length
\* fits the three size-field bytes the flags can declare
BelowPow24_RoundTrip ==
  (pc = "decoded" /\ PayloadLen < Pow24) =>
    /\ decoded.status = "ok"
    /\ decoded.payload = messagePayload
    /\ sigPrivKey # 0 =>
         /\ decoded.publicKey = getPublicKey(sigPrivKey)
         /\ decoded.hash = encoded.hash
         /\ decoded.signature = encoded.signature

BelowPow24_FlagsByte == PayloadLen < Pow24 => C3_FlagsByte

\* ------------------------------------------------------------------------
\* clearDecode of an arbitrary received message (specification SpecDecode)

DecodeFlags == (0..7) \cup {9, 130}
DeclaredLens == {0, 1, 5, 300, 70000, Pow24 - 1}
BodyLens == {0, 1, 5, 70}

FieldLenOf(flags) ==
  IF BitAnd(flags, FlagMask) = 0 THEN 1 ELSE BitAnd(flags, FlagMask)

MakeMessage(flags, declared, bodyLen) ==
  Norm(<<ByteRun(flags, 1)>>
       \o Slice(SetUint32LE(declared), 0, FieldLenOf(flags))
       \o Fill(170, bodyLen))

Messages ==
  {<<>>}
  \cup {<<ByteRun(f, 1)>> : f \in DecodeFlags}
  \cup {MakeMessage(f, d, b) : f \in DecodeFlags, d \in DeclaredLens,
                               b \in BodyLens}
  \cup {MakeMessage(f, d, PaddingTarget - 1 - FieldLenOf(f)) :
          f \in DecodeFlags, d \in DeclaredLens}
  \cup {clearEncode(MakePayload(n, "ramp"), k, "ones").payload :
          n \in {0, 5, 300}, k \in Keys}

InitDecode ==
  /\ SymIdle
  /\ WaitIdle
  /\ pc = "received"
  /\ message \in Messages
  /\ messagePayload = <<>>
  /\ sigPrivKey = 0
  /\ encoded = NoResult
  /\ decoded = NoResult
  /\ sizeResult = -1

DecodeMessage ==
  /\ pc = "received"
  /\ \E lib \in LibOutcomes : decoded' = clearDecode(message, lib)
  /\ pc' = "decoded"
  /\ UNCHANGED <<messagePayload, sigPrivKey, encoded, message, sizeResult>>
  /\ UNCHANGED <<symVars, waitVars>>

NextDecode == DecodeMessage

SpecDecode == InitDecode /\ [][NextDecode]_vars

FlagsOf(m) == ByteAt(m, 0)
LowBits(m) == BitAnd(FlagsOf(m), FlagMask)
SignedBit(m) == BitAnd(FlagsOf(m), IsSignedMask) = IsSignedMask

\* the bytes of the message after the flags and the size field
Available(m) == Max(Length(m) - 1 - LowBits(m), 0)
Declared(m) == getPayloadSize(m, LowBits(m))

\* C6: clearDecode returns no payload when the declared payload length
\* exceeds the bytes available after the flags and size field, and when
\* the length of the envelope is not a multiple of 256.
C6_MalformedReported ==
  (pc = "decoded" /\ Length(message) > 0) =>
    ((Declared(message) > Available(message)
      \/ Length(message) % PaddingTarget # 0)
     => decoded.status # "ok")

\* C8 as stated: clearDecode returns undefined iff the low two flag bits
\* are 0, and for low bits 1, 2, 3 it returns a record whose declared
\* payload length is in 0 .. 2^24 - 1.
C8_Original ==
  (pc = "decoded" /\ Length(message) > 0) =>
    /\ (decoded.status = "undefined") <=> (LowBits(message) = 0)
    /\ LowBits(message) # 0 =>
         /\ decoded.status = "ok"
         /\ decoded.size >= 0
         /\ decoded.size < Pow24

\* C8 amended: for a message of at least one byte clearDecode returns
\* undefined iff the low two flag bits are 0; with low bits 1, 2, 3 and the
\* is-signed bit clear it returns a record whose declared payload length
\* is in 0 .. 2^24 - 1; with the is-signed bit set it returns such a record
\* or throws while recovering the signature, and it always throws when the
\* message is shorter than 65 bytes.
C8_DecodeResult ==
  (pc = "decoded" /\ Length(message) > 0) =>
    /\ (decoded.status = "undefined") <=> (LowBits(message) = 0)
    /\ LowBits(message) # 0 =>
         /\ decoded.status \in {"ok", "throw"}
         /\ ~SignedBit(message) => decoded.status = "ok"
         /\ (SignedBit(message) /\ Length(message) < SignatureLength)
              => decoded.status = "throw"
         /\ decoded.status = "ok" =>
              (decoded.size >= 0 /\ decoded.size < Pow24)

C8_Witness ==
  /\ pc = "decoded"
  /\ Length(message) > 0
  /\ LowBits(message) = 3
  /\ SignedBit(message)
  /\ decoded.status = "ok"
  /\ decoded.size = Pow24 - 1

\* ------------------------------------------------------------------------
\* version_1.ts, symmetric wrappers

encryptSymmetric(data, key, nonce) ==
  LET iv == generateIv(nonce)
      cipher == symEncrypt(iv, hexToBytes(key), data)
  IN Concat(cipher, iv)

decryptSymmetric_leadingIv(payload, key) ==
  LET cipher == Slice(payload, IvSize, Length(payload))
      iv == Slice(payload, 0, IvSize)
  IN symDecrypt(iv, hexToBytes(key), cipher)

decryptSymmetric(payload, key) ==
  LET ivStart == Length(payload) - IvSize
      cipher == Slice(payload, 0, ivStart)
      iv == Slice(payload, ivStart, Length(payload))
  IN symDecrypt(iv, hexToBytes(key), cipher)

\* ------------------------------------------------------------------------
\* encryptSymmetric followed by decryptSymmetric (specification SpecSym)

MaxNonce == 2

SymKeys ==
  {BytesKey(<<ByteRun(1, 1), ByteRun(171, 1)>>),
   BytesKey(<<ByteRun(2, 1), ByteRun(171, 1)>>),
   StringKey(<<"0", "1", "a", "b">>),
   StringKey(<<"0", "x", "0", "1", "a", "b">>),
   StringKey(<<"0", "X", "0", "2", "a", "b">>)}

SymData ==
  {MakePayload(n, pat) : n \in {0, 1, 11, 12, 13, 28}, pat \in Patterns}
  \cup {clearEncode(MakePayload(5, "ramp"), k, "ones").payload : k \in Keys}

InitSym ==
  /\ CodecIdle
  /\ WaitIdle
  /\ symPc = "start"
  /\ symData \in SymData
  /\ symKey \in SymKeys
  /\ symDecKey \in SymKeys
  /\ symIv = <<>>
  /\ symBlob = <<>>
  /\ symPlain = [status |-> "none", data |-> <<>>]

EncryptSymmetric ==
  /\ symPc = "start"
  /\ \E nonce \in 1..MaxNonce :
       /\ symIv' = generateIv(nonce)
       /\ symBlob' = encryptSymmetric(symData, symKey, nonce)
  /\ symPc' = "encrypted"
  /\ UNCHANGED <<codecVars, waitVars, symData, symKey, symDecKey, symPlain>>

DecryptSymmetric ==
  /\ symPc = "encrypted"
  /\ symPlain' = decryptSymmetric(symBlob, symDecKey)
  /\ symPc' = "decrypted"
  /\ UNCHANGED <<codecVars, waitVars, symData, symKey, symDecKey, symIv, symBlob>>

NextSym == EncryptSymmetric \/ DecryptSymmetric

SpecSym == InitSym /\ [][NextSym]_vars

\* C5: decryptSymmetric(encryptSymmetric(P, S), S) = P; the blob is
\* cipher | tag followed by the 12-byte IV that was generated, and
\* decryption is given that IV and everything before it.
C5_SymmetricRoundTrip ==
  /\ symPc # "start" =>
       /\ Length(symBlob) = Length(symData) + TagSize + IvSize
       /\ Slice(symBlob, Length(symBlob) - IvSize, Length(symBlob)) = symIv
       /\ Slice(symBlob, 0, Length(symBlob) - IvSize)
            = symEncrypt(symIv, hexToBytes(symKey), symData)
  /\ (symPc = "decrypted" /\ hexToBytes(symDecKey) = hexToBytes(symKey)) =>
       /\ symPlain.status = "ok"
       /\ symPlain.data = symData

C5_Witness ==
  /\ symPc = "decrypted"
  /\ symKey.str
  /\ ~symDecKey.str
  /\ Length(symData) = 12
  /\ symPlain.status = "ok"
  /\ symPlain.data = symData

\* a different key makes decryption fail
WrongKeyFails ==
  (symPc = "decrypted" /\ hexToBytes(symDecKey) # hexToBytes(symKey)) =>
    symPlain.status = "throw"

\* ------------------------------------------------------------------------
\* waitForRemotePeer (specification SpecWait)

Protocols == {"Relay"} \cup Lookups

\* the object whose peers() the lookup for protocol p calls, named by the
\* protocol whose peers it lists (lines 60, 85, 89)
PeersOf(p) ==
  CASE p = "Store" -> "Store"
    [] p = "LightPush" -> "LightPush"
    [] p = "Filter" -> "LightPush"

\* the codec the change:protocols listener of protocol p looks for
CodecOf(p) == p

Fulfilled(p) == IF p = "Relay" THEN meshPeers ELSE p \in known

AllFulfilled == \A p \in protocols : Fulfilled(p)

\* Promise.all(promises): every promise that was pushed is resolved
AllDone(rp, lp) ==
  /\ rp \in {"none", "done"}
  /\ \A p \in Lookups : lp[p] \in {"none", "done"}

\* Promise.all / Promise.race settle in microtasks, before any later event
Settle(called, rp, lp) ==
  IF called /\ outcome = "pending" /\ AllDone(rp, lp)
  THEN "resolved" ELSE outcome

InitWait ==
  /\ CodecIdle
  /\ SymIdle
  /\ wPc = "init"
  /\ protocols \in SUBSET Protocols
  /\ timeoutMs \in {0, 1000}
  /\ subscribed \in BOOLEAN
  /\ meshPeers \in BOOLEAN
  /\ meshPeers => subscribed
  /\ known \in SUBSET Lookups
  /\ relayP = "none"
  /\ lookupP = [p \in Lookups |-> "none"]
  /\ timer = "none"
  /\ outcome = "pending"
  /\ settledAtTimeout = FALSE

\* the synchronous part of waitForRemotePeer, lines 35-100
Call ==
  /\ wPc = "init"
  /\ wPc' = "called"
  /\ relayP' = IF "Relay" \in protocols /\ ~meshPeers THEN "waitSub"
               ELSE "none"
  /\ lookupP' = [p \in Lookups |-> IF p \in protocols THEN "lookup"
                                   ELSE "none"]
  /\ timer' = IF timeoutMs # 0 THEN "armed" ELSE "none"
  /\ outcome' = Settle(TRUE, relayP', lookupP')
  /\ UNCHANGED <<codecVars, symVars, protocols, timeoutMs, subscribed,
                 meshPeers, known, settledAtTimeout>>

\* peers() reads the peer store (lines 60 and 110)
LookupRead(p) ==
  /\ lookupP[p] = "lookup"
  /\ lookupP' = [lookupP EXCEPT ![p] = IF PeersOf(p) \in known THEN "found"
                                       ELSE "empty"]
  /\ UNCHANGED <<codecVars, symVars, wPc, protocols, timeoutMs, subscribed,
                 meshPeers, known, relayP, timer, outcome, settledAtTimeout>>

\* the continuation after await peers() (lines 62-79 and 112-126)
LookupResume(p) ==
  /\ lookupP[p] \in {"found", "empty"}
  /\ lookupP' = [lookupP EXCEPT ![p] = IF lookupP[p] = "found" THEN "done"
                                       ELSE "listening"]
  /\ outcome' = Settle(wPc = "called", relayP, lookupP')
  /\ UNCHANGED <<codecVars, symVars, wPc, protocols, timeoutMs, subscribed,
                 meshPeers, known, relayP, timer, settledAtTimeout>>

\* a remote peer subscribes to the topic: "subscription-change" (line 46)
SubscriptionChange ==
  /\ ~subscribed
  /\ subscribed' = TRUE
  /\ relayP' = IF relayP = "waitSub" THEN "waitBeat" ELSE relayP
  /\ UNCHANGED <<codecVars, symVars, wPc, protocols, timeoutMs, meshPeers,
                 known, lookupP, timer, outcome, settledAtTimeout>>

\* the gossipsub heartbeat grafts subscribed peers into the mesh and emits
\* "gossipsub:heartbeat" (line 49)
Heartbeat ==
  /\ meshPeers' = (meshPeers \/ subscribed)
  /\ relayP' = IF relayP = "waitBeat" THEN "done" ELSE relayP
  /\ outcome' = Settle(wPc = "called", relayP', lookupP)
  /\ UNCHANGED <<codecVars, symVars, wPc, protocols, timeoutMs, subscribed,
                 known, lookupP, timer, settledAtTimeout>>

\* the peer store learns the protocols of a remote peer: "change:protocols"
\* with evt.detail.protocols = codecs (callbacks of lines 68-77, 118-124)
ChangeProtocols(codecs) ==
  /\ ~(codecs \subseteq known)
  /\ known' = known \cup codecs
  /\ lookupP' = [p \in Lookups |->
                   IF lookupP[p] = "listening" /\ CodecOf(p) \in codecs
                   THEN "done" ELSE lookupP[p]]
  /\ outcome' = Settle(wPc = "called", relayP, lookupP')
  /\ UNCHANGED <<codecVars, symVars, wPc, protocols, timeoutMs, subscribed,
                 meshPeers, relayP, timer, settledAtTimeout>>

\* setTimeout(() => reject(rejectReason), ms) (lines 129-137)
TimerFire ==
  /\ timer = "armed"
  /\ timer' = "fired"
  /\ outcome' = IF outcome = "pending" THEN "rejected" ELSE outcome
  /\ settledAtTimeout' =
       (AllFulfilled /\ \A p \in Lookups :
                          lookupP[p] \notin {"lookup", "found", "empty"})
  /\ UNCHANGED <<codecVars, symVars, wPc, protocols, timeoutMs, subscribed,
                 meshPeers, known, relayP, lookupP>>

NextWait ==
  \/ Call
  \/ \E p \in Lookups : LookupRead(p)
  \/ \E p \in Lookups : LookupResume(p)
  \/ SubscriptionChange
  \/ Heartbeat
  \/ \E codecs \in SUBSET Lookups : ChangeProtocols(codecs)
  \/ TimerFire

SpecWait == InitWait /\ [][NextWait]_vars

\* C7: the promise resolves if all requested protocols become fulfilled
\* before the timeout and rejects only if the timeout is reached first, in
\* every interleaving: it is never rejected by a timeout at which every
\* requested protocol was already fulfilled and every peer lookup had
\* returned.
C7_ResolvesWhenFulfilled == outcome = "rejected" => ~settledAtTimeout

====
